---- MODULE Spec2Model ----
(***************************************************************************)
(* Model of the sp105e crate: the command codec (Command::buf), the status *)
(* decoder (StatusResp::try_from) and the BlueZ client (LEDClient).        *)
(***************************************************************************)
EXTENDS Integers, Sequences, FiniteSets, TLC

VARIABLES
    encIn,      \* the Command handed to Command::buf
    encDone,    \* TRUE once buf has returned
    encOut,     \* the boxed array buf returned (<<>> before the call)
    decIn,      \* the Vec<u8> handed to StatusResp::try_from
    decDone,    \* TRUE once try_from has returned
    decOut,     \* the Result<StatusResp> try_from returned
    linkUp,     \* the device is connected (what Device::is_connected reads)
    pc,         \* where the client's current async fn is suspended
    op,         \* the LEDClient operation running or last run
    cmd,        \* the Command of that operation
    retry,      \* `retry` of ensure_device_connected
    log,        \* the transport calls (and sleeps) of that operation, in order
    res,        \* `res` of get_status: the bytes accumulated so far
    stream,     \* the bytes the controller notifies in answer to the write
    delivered,  \* how many of them the notification stream has yielded
    result      \* the Result the operation returned

encVars == <<encIn, encDone, encOut>>
decVars == <<decIn, decDone, decOut>>
cliVars == <<linkUp, pc, op, cmd, retry, log, res, stream, delivered, result>>
vars == <<encVars, decVars, cliVars>>

(***************************************************************************)
(* commands.rs: constants and enums                                        *)
(***************************************************************************)
COMMAND_BUF_LENGTH == 5
COMMAND_PREFIX == 56
STATUS_RETURN_LENGTH == 8

U8Max == 255
U16Max == 65535

Byte == 0..U8Max

\* enum ColorOrder, in declaration order (ordinal = position - 1)
ColorOrder == <<"RGB", "RBG", "GRB", "GBR", "BRG", "BGR">>

\* enum PixelType, in declaration order (ordinal = position - 1)
PixelType ==
    <<"SM16703", "TM1804", "USC1903", "WS2811", "WS2801", "SK6812",
      "SK6812RGBW", "LPD6803", "LPD8806", "APA102", "APA105", "TM1814",
      "TM1914", "TM1913", "P9813", "INK1003", "DMX512", "P943S", "P9411",
      "P9412", "P9413", "P9414", "TX1812", "TX1813", "GS8206", "GS8208",
      "SK9822">>

RECURSIVE IndexOf(_, _, _)
IndexOf(s, x, i) ==
    IF i > Len(s) THEN 0
    ELSE IF s[i] = x THEN i
    ELSE IndexOf(s, x, i + 1)

\* `co as u8`: the ordinal of a fieldless repr(u8) enum value
ColorOrderAsU8(co) == IndexOf(ColorOrder, co, 1) - 1

\* `pt as u8`
PixelTypeAsU8(pt) == IndexOf(PixelType, pt, 1) - 1

\* The variants of enum Command that carry no payload
StaticTags ==
    {"Hello", "Status", "Power", "FixedRed", "FixedGreen", "FixedBlue",
     "FixedWhite1", "FixedWhite2", "SpeedUp", "SpeedDown", "BrightnessUp",
     "BrightnessDown"}

\* A Command value: the variant and its payload (unused fields are 0, "", <<>>)
Cmd(tag, n, e, rgb) == [tag |-> tag, n |-> n, e |-> e, rgb |-> rgb]
Static(tag) == Cmd(tag, 0, "", <<>>)
SetPixels(n) == Cmd("SetPixels", n, "", <<>>)
SetColorOrder(co) == Cmd("SetColorOrder", 0, co, <<>>)
SetPixelType(pt) == Cmd("SetPixelType", 0, pt, <<>>)
Animation(id) == Cmd("Animation", id, "", <<>>)
Color(rgb) == Cmd("Color", 0, "", rgb)

\* The explicit discriminants declared in enum Command
Discriminants ==
    [Hello |-> 213, Status |-> 16, Power |-> 170, SetPixels |-> 45,
     SetColorOrder |-> 60, SetPixelType |-> 28, FixedRed |-> 18,
     FixedGreen |-> 24, FixedBlue |-> 54, FixedWhite1 |-> 59,
     FixedWhite2 |-> 86, Animation |-> 44, Color |-> 30, SpeedUp |-> 3,
     SpeedDown |-> 9, BrightnessUp |-> 42, BrightnessDown |-> 40]

\* faulty variant: reads the byte after the tag (the first payload byte) instead
discriminant_payload(c) ==
    IF c.tag \in StaticTags THEN 0 ELSE Discriminants[c.tag]

\* Command::discriminant: the first byte of the repr(u8) value is its tag
discriminant(c) == Discriminants[c.tag]

\* faulty variant: little-endian pixel count, colour bytes reversed
inner_bytes_swapped(c) ==
    CASE c.tag = "SetPixels" -> <<c.n % 256, (c.n \div 256) % 256, 0>>
      [] c.tag = "Color" -> <<c.rgb[3], c.rgb[2], c.rgb[1]>>
      [] c.tag = "Animation" -> <<c.n, 0, 0>>
      [] c.tag = "SetColorOrder" -> <<ColorOrderAsU8(c.e), 0, 0>>
      [] c.tag = "SetPixelType" -> <<PixelTypeAsU8(c.e), 0, 0>>
      [] OTHER -> <<0, 0, 0>>

\* the `match self` of Command::buf
inner_bytes(c) ==
    CASE c.tag = "SetPixels" -> <<(c.n \div 256) % 256, c.n % 256, 0>>
      [] c.tag = "Color" -> c.rgb
      [] c.tag = "Animation" -> <<c.n, 0, 0>>
      [] c.tag = "SetColorOrder" -> <<ColorOrderAsU8(c.e), 0, 0>>
      [] c.tag = "SetPixelType" -> <<PixelTypeAsU8(c.e), 0, 0>>
      [] OTHER -> <<0, 0, 0>>

\* Command::buf
buf(c) ==
    <<COMMAND_PREFIX, inner_bytes(c)[1], inner_bytes(c)[2], inner_bytes(c)[3],
      discriminant(c)>>

(***************************************************************************)
(* Inputs of the codec                                                      *)
(***************************************************************************)
\* colour bytes the encoder is exercised with
ColorBytes == {0, 18, 52, 86, 255}

Commands ==
    {Static(t) : t \in StaticTags}
    \cup {SetPixels(n) : n \in 0..U16Max}
    \cup {SetColorOrder(ColorOrder[i]) : i \in 1..Len(ColorOrder)}
    \cup {SetPixelType(PixelType[i]) : i \in 1..Len(PixelType)}
    \cup {Animation(id) : id \in Byte}
    \cup {Color(<<a, b, c>>) : a \in ColorBytes, b \in ColorBytes, c \in ColorBytes}

NoStatus ==
    [power |-> 0, mode |-> Static("Hello"), speed |-> 0, brightness |-> 0,
     pixel_type |-> "", color_order |-> "", unknown |-> <<>>]

NoResult == [state |-> "none", err |-> "", val |-> NoStatus]

DecIdle == decIn = <<>> /\ decDone = FALSE /\ decOut = NoResult

CliIdle ==
    /\ linkUp = FALSE /\ pc = "idle" /\ op = "none" /\ cmd = Static("Hello")
    /\ retry = 0 /\ log = <<>> /\ res = <<>> /\ stream = <<>> /\ delivered = 0
    /\ result = NoResult

InitEnc ==
    /\ encIn \in Commands
    /\ encDone = FALSE
    /\ encOut = <<>>
    /\ DecIdle
    /\ CliIdle

\* a call of Command::buf on the chosen command
Encode ==
    /\ ~encDone
    /\ encDone' = TRUE
    /\ encOut' = buf(encIn)
    /\ UNCHANGED <<encIn, decVars, cliVars>>

NextEnc == Encode

SpecEnc == InitEnc /\ [][NextEnc]_vars

(***************************************************************************)
(* commands.rs: impl TryFrom<Vec<u8>> for StatusResp                        *)
(***************************************************************************)
Ok(v) == [state |-> "ok", err |-> "", val |-> v]
Err(msg) == [state |-> "err", err |-> msg, val |-> NoStatus]

\* `value.len() < 8`
too_short(value) == Len(value) < 8

\* faulty variant: a slice pattern with a rest, which also takes longer vectors
unpacks_prefix(value) == Len(value) >= 8

\* the 8-element slice pattern of the let-else matches vectors of length 8
unpacks(value) == Len(value) = 8

\* faulty variant: exclusive comparison, animation 0xc8 falls into the match
is_animation_excl(mode_v) == mode_v < 200

\* `mode_v <= 0xc8`
is_animation(mode_v) == mode_v <= 200

\* the arms of `match mode_v` that name a mode
FixedModes == {201, 202, 203, 204, 205, 206}

\* the mode the `if`/`match` on mode_v evaluates to (for the bytes that have one)
mode_from(mode_v) ==
    IF is_animation(mode_v) THEN Animation(mode_v)
    ELSE CASE mode_v = 201 -> Color(<<0, 0, 0>>)
           [] mode_v = 202 -> Static("FixedRed")
           [] mode_v = 203 -> Static("FixedGreen")
           [] mode_v = 204 -> Static("FixedBlue")
           [] mode_v = 205 -> Static("FixedWhite1")
           [] mode_v = 206 -> Static("FixedWhite2")

\* faulty variant: exclusive range, the last pixel type is rejected
pixel_type_known_excl(v) == v >= 0 /\ v < PixelTypeAsU8("SK9822")

\* `(0..=PixelType::SK9822 as u8).contains(&pixel_type_v)`
pixel_type_known(v) == v >= 0 /\ v <= PixelTypeAsU8("SK9822")

\* `(0..=ColorOrder::BGR as u8).contains(&color_order_v)`
color_order_known(v) == v >= 0 /\ v <= ColorOrderAsU8("BGR")

\* transmute of a checked ordinal into the enum
PixelTypeFromU8(v) == PixelType[v + 1]
ColorOrderFromU8(v) == ColorOrder[v + 1]

try_from(value) ==
    IF too_short(value) THEN Err("status vector has wrong size")
    ELSE IF ~unpacks(value) THEN Err("could not unpack status vector!")
    ELSE IF ~is_animation(value[2]) /\ value[2] \notin FixedModes
        THEN Err("unknown mode")
    ELSE IF ~pixel_type_known(value[5]) THEN Err("pixel type is not known")
    ELSE IF ~color_order_known(value[6]) THEN Err("pixel type is not known")
    ELSE Ok([power |-> value[1],
             mode |-> mode_from(value[2]),
             speed |-> value[3],
             brightness |-> value[4],
             pixel_type |-> PixelTypeFromU8(value[5]),
             color_order |-> ColorOrderFromU8(value[6]),
             unknown |-> <<value[7], value[8]>>])

(***************************************************************************)
(* Inputs of the decoder                                                    *)
(***************************************************************************)
\* longest vector handed to the decoder
MaxLen == 9

PowerBytes == {0, 1}
ModeBytes == {0, 5, 200, 201, 202, 203, 204, 205, 206, 207, 255}
SpeedBytes == {3, 255}
BrightnessBytes == {4, 0}
PixelTypeBytes == {0, 9, 26, 27, 255}
ColorOrderBytes == {0, 2, 5, 6, 255}
Reserved0Bytes == {1, 0}
Reserved1Bytes == {244, 255}
ExtraBytes == {0, 7}

Payloads ==
    {<<b0, b1, b2, b3, b4, b5, b6, b7>> :
        b0 \in PowerBytes, b1 \in ModeBytes, b2 \in SpeedBytes,
        b3 \in BrightnessBytes, b4 \in PixelTypeBytes, b5 \in ColorOrderBytes,
        b6 \in Reserved0Bytes, b7 \in Reserved1Bytes}

\* the payload cut to k bytes, or padded to k bytes with x
Resized(p, k, x) ==
    IF k <= Len(p) THEN SubSeq(p, 1, k)
    ELSE p \o [i \in 1..(k - Len(p)) |-> x]

DecInputs == {Resized(p, k, x) : p \in Payloads, k \in 0..MaxLen, x \in ExtraBytes}

EncIdle == encIn = Static("Hello") /\ encDone = FALSE /\ encOut = <<>>

InitDec ==
    /\ decIn \in DecInputs
    /\ decDone = FALSE
    /\ decOut = NoResult
    /\ EncIdle
    /\ CliIdle

\* a call of StatusResp::try_from on the chosen vector
Decode ==
    /\ ~decDone
    /\ decDone' = TRUE
    /\ decOut' = try_from(decIn)
    /\ UNCHANGED <<decIn, encVars, cliVars>>

NextDec == Decode

SpecDec == InitDec /\ [][NextDec]_vars

(***************************************************************************)
(* client.rs: LEDClient over the BlueZ transport                            *)
(***************************************************************************)
GATT_SERVICE_UUID == "0000ffe0-0000-1000-8000-00805f9b34fb"
GATT_CHARACTERISTIC_UUID == "0000ffe1-0000-1000-8000-00805f9b34fb"

\* one transport call (or sleep) of the running operation: the call, the
\* function that made it, what it returned, and the bytes it carried
Ev(call, from, ret, data) == [call |-> call, from |-> from, ret |-> ret, data |-> data]

\* what `?` on a bluer call propagates
TransportErr == Err("bluer error")

\* the GATT tables device.services() is exercised with
Service(uuid, chrs) == [uuid |-> uuid, chrs |-> chrs]
GattTables ==
    {<<Service(GATT_SERVICE_UUID, <<GATT_CHARACTERISTIC_UUID>>)>>,
     <<Service("00001800-0000-1000-8000-00805f9b34fb", <<"00002a00-0000-1000-8000-00805f9b34fb">>),
       Service(GATT_SERVICE_UUID, <<"0000ffe2-0000-1000-8000-00805f9b34fb", GATT_CHARACTERISTIC_UUID>>)>>,
     <<Service(GATT_SERVICE_UUID, <<"0000ffe2-0000-1000-8000-00805f9b34fb">>)>>,
     <<Service("00001800-0000-1000-8000-00805f9b34fb", <<GATT_CHARACTERISTIC_UUID>>)>>,
     <<>>}

\* find_led_characteristic returns Ok: some service with the wanted UUID has
\* a characteristic with the wanted UUID
has_led_characteristic(table) ==
    \E i \in 1..Len(table) :
        /\ table[i].uuid = GATT_SERVICE_UUID
        /\ \E j \in 1..Len(table[i].chrs) : table[i].chrs[j] = GATT_CHARACTERISTIC_UUID

\* the commands send_cmd is exercised with
SendCommands == {Static("Power"), Color(<<18, 52, 86>>), SetPixels(4660)}

\* longest chunk one notification carries
MaxChunk == 4

\* the bytes the controller is made to notify after a write
Streams ==
    {<<1, 5, 3, 4, 9, 2, 1, 244>>,
     <<0, 207, 3, 4, 9, 2, 1, 244>>,
     <<1, 201, 6, 6, 26, 5, 1, 244, 0, 202>>,
     <<1, 5, 3>>}

\* where an operation that fails leaves the caller: LEDClient::new yields no
\* client, a method of an existing client leaves it usable
Fail(o) == IF o = "new" THEN "failed" ELSE "ready"

\* what follows a successful ensure_device_connected in each caller
AfterEnsure(o) ==
    CASE o = "new" -> "discover"
      [] o = "send" -> "write"
      [] o = "status" -> "notify"

BoolStr(b) == IF b THEN "true" ELSE "false"

\* faulty variant: the negation dropped
needs_connect_inverted(connected) == connected

\* `if !device.is_connected().await?`
needs_connect(connected) == ~connected

\* faulty variant: the counter compared after one more round
retries_exhausted_late(r) == r < 0

\* `if retry == 0`
retries_exhausted(r) == r = 0

\* faulty variant: the subscription error is dropped
after_notify_ignoring(ok) == "write"

\* `self.characteristic.notify().await?` followed by the write
after_notify(ok) == IF ok THEN "write" ELSE "ready"

\* faulty variant: the chunk is put in front
extend_front(r, value) == value \o r

\* `res.extend(value)`
extend(r, value) == r \o value

InitClient ==
    /\ linkUp \in BOOLEAN
    /\ pc = "start"
    /\ op = "none"
    /\ cmd = Static("Hello")
    /\ retry = 0
    /\ log = <<>>
    /\ res = <<>>
    /\ stream = <<>>
    /\ delivered = 0
    /\ result = NoResult
    /\ EncIdle
    /\ DecIdle

\* LEDClient::new up to the device handle: session, adapter, device
New ==
    /\ pc = "start"
    /\ op' = "new"
    /\ \E ok \in BOOLEAN :
        /\ pc' = IF ok THEN "new_check" ELSE "failed"
        /\ result' = IF ok THEN NoResult ELSE TransportErr
    /\ UNCHANGED <<linkUp, cmd, retry, log, res, stream, delivered, encVars, decVars>>

\* LEDClient::new: `if !device.is_connected().await?`
NewIsConnected ==
    /\ pc = "new_check"
    /\ \E r \in {"err", BoolStr(linkUp)} :
        /\ log' = Append(log, Ev("is_connected", "new", r, <<>>))
        /\ pc' = CASE r = "err" -> "failed"
                   [] r = "false" -> "ensure"
                   [] r = "true" -> "discover"
        /\ result' = IF r = "err" THEN TransportErr ELSE result
    /\ UNCHANGED <<linkUp, op, cmd, retry, res, stream, delivered, encVars, decVars>>

\* ensure_device_connected: the is_connected check and `let mut retry = 3`
EnsureIsConnected ==
    /\ pc = "ensure"
    /\ \E r \in {"err", BoolStr(linkUp)} :
        /\ log' = Append(log, Ev("is_connected", "ensure_device_connected", r, <<>>))
        /\ IF r = "err"
            THEN pc' = Fail(op) /\ result' = TransportErr /\ retry' = retry
            ELSE IF needs_connect(r = "true")
                THEN pc' = "connect" /\ retry' = 3 /\ result' = result
                ELSE pc' = AfterEnsure(op) /\ retry' = retry /\ result' = result
    /\ UNCHANGED <<linkUp, op, cmd, res, stream, delivered, encVars, decVars>>

\* one round of the loop of ensure_device_connected: device.connect(), and
\* after a failure the count-down and the thread sleep
Connect ==
    /\ pc = "connect"
    /\ \E ok \in BOOLEAN :
        IF ok
        THEN /\ log' = Append(log, Ev("connect", "ensure_device_connected", "ok", <<>>))
             /\ linkUp' = TRUE
             /\ pc' = AfterEnsure(op)
             /\ UNCHANGED <<retry, result>>
        ELSE /\ retry' = retry - 1
             /\ linkUp' = linkUp
             /\ IF retries_exhausted(retry')
                THEN /\ log' = Append(log, Ev("connect", "ensure_device_connected", "err", <<>>))
                     /\ result' = Err("failed to connect to device")
                     /\ pc' = Fail(op)
                ELSE /\ log' = log \o <<Ev("connect", "ensure_device_connected", "err", <<>>),
                                        Ev("sleep", "ensure_device_connected", "ok", <<>>)>>
                     /\ result' = result
                     /\ pc' = "connect"
    /\ UNCHANGED <<op, cmd, res, stream, delivered, encVars, decVars>>

\* find_led_characteristic, and the end of LEDClient::new
Discover ==
    /\ pc = "discover"
    /\ \E ok \in BOOLEAN, table \in GattTables :
        /\ log' = Append(log, Ev("services", "find_led_characteristic", BoolStr(ok), <<>>))
        /\ IF ~ok THEN pc' = "failed" /\ result' = TransportErr
           ELSE IF has_led_characteristic(table)
                THEN pc' = "ready" /\ result' = Ok(NoStatus)
                ELSE /\ pc' = "failed"
                     /\ result' = Err("device does not have the required gatt service/characteristic")
    /\ UNCHANGED <<linkUp, op, cmd, retry, res, stream, delivered, encVars, decVars>>

\* a call of send_cmd on the client
SendCmd(c) ==
    /\ pc = "ready"
    /\ op' = "send"
    /\ cmd' = c
    /\ pc' = "ensure"
    /\ log' = <<>>
    /\ res' = <<>>
    /\ stream' = <<>>
    /\ delivered' = 0
    /\ result' = NoResult
    /\ UNCHANGED <<linkUp, retry, encVars, decVars>>

\* a call of get_status on the client
GetStatus ==
    /\ pc = "ready"
    /\ op' = "status"
    /\ cmd' = Static("Status")
    /\ pc' = "ensure"
    /\ log' = <<>>
    /\ res' = <<>>
    /\ stream' = <<>>
    /\ delivered' = 0
    /\ result' = NoResult
    /\ UNCHANGED <<linkUp, retry, encVars, decVars>>

\* send_cmd_with_callback: characteristic.notify()
Notify ==
    /\ pc = "notify"
    /\ \E ok \in BOOLEAN :
        /\ ok => linkUp
        /\ log' = Append(log, Ev("notify", "send_cmd_with_callback", IF ok THEN "ok" ELSE "err", <<>>))
        /\ pc' = after_notify(ok)
        /\ result' = IF pc' = "write" THEN result ELSE TransportErr
    /\ UNCHANGED <<linkUp, op, cmd, retry, res, stream, delivered, encVars, decVars>>

\* characteristic.write(&*command.buf()) of send_cmd and send_cmd_with_callback
Write ==
    /\ pc = "write"
    /\ \E ok \in BOOLEAN :
        /\ ok => linkUp
        /\ log' = Append(log, Ev("write", IF op = "send" THEN "send_cmd" ELSE "send_cmd_with_callback",
                                 IF ok THEN "ok" ELSE "err", buf(cmd)))
        /\ IF ~ok THEN pc' = "ready" /\ result' = TransportErr /\ stream' = stream
           ELSE IF op = "send" THEN pc' = "ready" /\ result' = Ok(NoStatus) /\ stream' = stream
           ELSE pc' = "recv" /\ result' = result /\ stream' \in Streams
    /\ UNCHANGED <<linkUp, op, cmd, retry, res, delivered, encVars, decVars>>

\* get_status: ret.next() yields Some(value); the loop ends once res holds
\* STATUS_RETURN_LENGTH bytes, and res.try_into() is the result
NextChunk ==
    /\ pc = "recv"
    /\ \E k \in 1..MaxChunk :
        /\ delivered + k <= Len(stream)
        /\ LET value == SubSeq(stream, delivered + 1, delivered + k)
               res2 == extend(res, value)
           IN /\ log' = Append(log, Ev("next", "get_status", "some", value))
              /\ res' = res2
              /\ delivered' = delivered + k
              /\ IF Len(res2) < STATUS_RETURN_LENGTH
                 THEN pc' = "recv" /\ result' = result
                 ELSE pc' = "ready" /\ result' = try_from(res2)
    /\ UNCHANGED <<linkUp, op, cmd, retry, stream, encVars, decVars>>

\* get_status: ret.next() yields None; the loop breaks and res.try_into()
\* is the result
NextNone ==
    /\ pc = "recv"
    /\ log' = Append(log, Ev("next", "get_status", "none", <<>>))
    /\ pc' = "ready"
    /\ result' = try_from(res)
    /\ UNCHANGED <<linkUp, op, cmd, retry, res, stream, delivered, encVars, decVars>>

\* the device drops the link
LinkDrop ==
    /\ pc \notin {"start", "failed"}
    /\ linkUp
    /\ linkUp' = FALSE
    /\ UNCHANGED <<pc, op, cmd, retry, log, res, stream, delivered, result, encVars, decVars>>

\* the link comes up without the client (another BlueZ client, auto-connect)
LinkRestore ==
    /\ pc \notin {"start", "failed"}
    /\ ~linkUp
    /\ linkUp' = TRUE
    /\ UNCHANGED <<pc, op, cmd, retry, log, res, stream, delivered, result, encVars, decVars>>

Next ==
    \/ New
    \/ NewIsConnected
    \/ EnsureIsConnected
    \/ Connect
    \/ Discover
    \/ \E c \in SendCommands : SendCmd(c)
    \/ GetStatus
    \/ Notify
    \/ Write
    \/ NextChunk
    \/ NextNone
    \/ LinkDrop
    \/ LinkRestore

Spec == InitClient /\ [][Next]_vars

(***************************************************************************)
(* Properties of the codec                                                  *)
(***************************************************************************)
Range(s) == {s[i] : i \in 1..Len(s)}

OutOfRange(c) ==
    \/ c.tag = "SetPixels" /\ (c.n = 0 \/ c.n > 2048)
    \/ c.tag = "Animation" /\ c.n > 200

\* C3: encoding SetPixels(n) with n = 0 or n > 2048, or Animation(id) with
\* id > 200, fails and never yields a 5-byte frame.
C3_OutOfRangeRejected ==
    (encDone /\ OutOfRange(encIn)) => Len(encOut) # COMMAND_BUF_LENGTH

(***************************************************************************)
(* Properties of the decoder                                                *)
(***************************************************************************)
MalformedStatus(r) ==
    /\ r.state = "err"
    /\ r.err \in {"status vector has wrong size", "could not unpack status vector!"}
UnknownMode(r) == r.state = "err" /\ r.err = "unknown mode"
InvalidEnumValue(r) == r.state = "err" /\ r.err = "pixel type is not known"

\* the mode a status byte stands for, as the status documentation lists it
DocumentedMode(b) ==
    IF b <= 200 THEN [tag |-> "Animation", n |-> b, e |-> "", rgb |-> <<>>]
    ELSE IF b = 201 THEN [tag |-> "Color", n |-> 0, e |-> "", rgb |-> <<0, 0, 0>>]
    ELSE [tag |-> <<"FixedRed", "FixedGreen", "FixedBlue", "FixedWhite1",
                    "FixedWhite2">>[b - 201],
          n |-> 0, e |-> "", rgb |-> <<>>]

\* C4: an 8-byte payload [b0..b7] with b1 <= 0xCE, b4 <= 26, b5 <= 5 decodes
\* to power b0, speed b2, brightness b3, the pixel type of ordinal b4, the
\* colour order of ordinal b5, reserved [b6, b7], and the mode b1 stands for:
\* Animation(b1) up to 0xC8, custom colour for 0xC9, the fixed colours for
\* 0xCA..0xCE.
C4_DecodeFields ==
    (decDone /\ Len(decIn) = 8 /\ decIn[2] <= 206 /\ decIn[5] <= 26 /\ decIn[6] <= 5) =>
        /\ decOut.state = "ok"
        /\ decOut.val.power = decIn[1]
        /\ decOut.val.mode = DocumentedMode(decIn[2])
        /\ decOut.val.speed = decIn[3]
        /\ decOut.val.brightness = decIn[4]
        /\ decOut.val.pixel_type = PixelType[decIn[5] + 1]
        /\ decOut.val.color_order = ColorOrder[decIn[6] + 1]
        /\ decOut.val.unknown = <<decIn[7], decIn[8]>>

C4_Witness ==
    /\ decDone
    /\ decIn = <<1, 5, 3, 4, 9, 2, 1, 244>>
    /\ decOut.state = "ok"
    /\ decOut.val.mode = Animation(5)
    /\ decOut.val.pixel_type = "APA102"
    /\ decOut.val.color_order = "GRB"

\* C5: decoding an 8-byte payload fails exactly when an enumerated field is
\* out of range: a mode byte above 0xCE gives the unknown-mode error, a pixel
\* type above 26 or a colour order above 5 the invalid-enum error (the fields
\* are checked in that order); the other bytes never make it fail, and a
\* decoded status holds only declared enum values.
C5_DecodeFailsIffOutOfRange ==
    (decDone /\ Len(decIn) = 8) =>
        /\ decOut.state \in {"ok", "err"}
        /\ decOut.state = "err" <=> (decIn[2] > 206 \/ decIn[5] > 26 \/ decIn[6] > 5)
        /\ decIn[2] > 206 => UnknownMode(decOut)
        /\ (decIn[2] <= 206 /\ decIn[5] > 26) => InvalidEnumValue(decOut)
        /\ (decIn[2] <= 206 /\ decIn[5] <= 26 /\ decIn[6] > 5) => InvalidEnumValue(decOut)
        /\ decOut.state = "ok" =>
            /\ decOut.val.pixel_type \in Range(PixelType)
            /\ decOut.val.color_order \in Range(ColorOrder)
            /\ decOut.val.mode.tag \in
                {"Animation", "Color", "FixedRed", "FixedGreen", "FixedBlue",
                 "FixedWhite1", "FixedWhite2"}
            /\ decOut.val.mode.tag = "Animation" => decOut.val.mode.n <= 200

C5_Witness ==
    /\ decDone /\ Len(decIn) = 8
    /\ decIn[2] <= 206 /\ decIn[5] = 27 /\ decIn[6] <= 5
    /\ InvalidEnumValue(decOut)

\* C6: decoding a vector whose length is not 8, shorter (also empty) or
\* longer, fails with the malformed-status error and yields no StatusResp.
C6_WrongLengthFails ==
    (decDone /\ Len(decIn) # 8) => (MalformedStatus(decOut) /\ decOut.val = NoStatus)

C6_Witness ==
    decDone /\ Len(decIn) > 8 /\ MalformedStatus(decOut)

(***************************************************************************)
(* Properties of the client                                                 *)
(***************************************************************************)
Calls(name) == {i \in 1..Len(log) : log[i].call = name}
FailedConnects == {i \in Calls("connect") : log[i].ret = "err"}
GoodConnects == {i \in Calls("connect") : log[i].ret = "ok"}
ReportedConnected == \E i \in Calls("is_connected") : log[i].ret = "true"
LoopEntered ==
    \E i \in Calls("is_connected") :
        log[i].from = "ensure_device_connected" /\ log[i].ret = "false"

ConnectionFailed(r) == r.state = "err" /\ r.err = "failed to connect to device"

\* C7: one connect operation calls the transport's connect 0 times when the
\* device reports connected, and otherwise at least once and at most 3 times,
\* stopping at the first success; a backoff sleep happens only between a
\* failed attempt and the next one; after 3 failed attempts the operation
\* fails with the connection error, with no 4th attempt and no discovery.
C7_ConnectRetries ==
    /\ Cardinality(Calls("connect")) <= 3
    /\ ReportedConnected => Calls("connect") = {}
    /\ (LoopEntered /\ pc # "connect") => Calls("connect") # {}
    /\ Calls("connect") # {} => LoopEntered
    /\ \A i \in GoodConnects : \A j \in (i + 1)..Len(log) :
        log[j].call \notin {"connect", "sleep"}
    /\ \A i \in Calls("sleep") :
        /\ i - 1 \in FailedConnects
        /\ i < Len(log) => i + 1 \in Calls("connect")
        /\ i = Len(log) => pc = "connect"
    /\ \A i \in FailedConnects : i < Len(log) => i + 1 \in Calls("sleep")
    /\ \A i \in FailedConnects :
        i = Len(log) => (Cardinality(FailedConnects) = 3 /\ pc = Fail(op))
    /\ Cardinality(FailedConnects) = 3 =>
        /\ pc = Fail(op)
        /\ ConnectionFailed(result)
        /\ Calls("services") = {} /\ Calls("notify") = {} /\ Calls("write") = {}
        /\ Cardinality(Calls("sleep")) = 2

C7_Witness ==
    /\ op = "new" /\ pc = "failed"
    /\ Cardinality(FailedConnects) = 3
    /\ Cardinality(Calls("sleep")) = 2
    /\ ConnectionFailed(result)

\* C8: in get_status the subscription to notifications is made before the
\* Status frame is written; the frame is not written when the subscription
\* fails; no notification chunk is read before the write.
C8_SubscribeBeforeWrite ==
    op = "status" =>
        /\ \A i \in Calls("write") :
            /\ \E j \in 1..(i - 1) : log[j].call = "notify" /\ log[j].ret = "ok"
            /\ log[i].data = <<56, 0, 0, 0, 16>>
        /\ \A i \in Calls("notify") :
            log[i].ret = "err" => (i = Len(log) /\ pc = "ready" /\ result.state = "err")
        /\ \A i \in Calls("next") :
            \E j \in 1..(i - 1) : log[j].call = "write" /\ log[j].ret = "ok"
        /\ pc = "recv" => Calls("write") # {}

C8_Witness ==
    /\ op = "status" /\ pc = "ready" /\ result.state = "ok"
    /\ Calls("notify") # {} /\ Calls("write") # {} /\ Calls("next") # {}

RECURSIVE BytesBefore(_)
\* the bytes the notification stream had yielded before log entry i
BytesBefore(i) ==
    IF i <= 1 THEN 0
    ELSE BytesBefore(i - 1)
         + (IF log[i - 1].call = "next" THEN Len(log[i - 1].data) ELSE 0)

StreamEnded == log # <<>> /\ log[Len(log)].call = "next" /\ log[Len(log)].ret = "none"

\* the error get_status returns for a stream that ended early
IncompleteStatus(r) == r.state = "err" /\ r.err = "status vector has wrong size"

\* C9: get_status concatenates the chunks in arrival order, reads on only
\* while fewer than 8 bytes are accumulated and decodes only after that; when
\* the stream ends before 8 bytes, it fails and returns no StatusResp made
\* from the short buffer.
C9_AccumulateThenDecode ==
    op = "status" =>
        /\ delivered <= Len(stream)
        /\ res = SubSeq(stream, 1, delivered)
        /\ \A i \in Calls("next") : BytesBefore(i) < 8
        /\ pc = "recv" => (Len(res) < 8 /\ result = NoResult)
        /\ result.state = "ok" =>
            /\ Len(res) = 8
            /\ result.val.power = stream[1]
            /\ result.val.mode = DocumentedMode(stream[2])
            /\ result.val.speed = stream[3]
            /\ result.val.brightness = stream[4]
            /\ result.val.pixel_type = PixelType[stream[5] + 1]
            /\ result.val.color_order = ColorOrder[stream[6] + 1]
            /\ result.val.unknown = <<stream[7], stream[8]>>
        /\ (StreamEnded /\ Len(res) < 8) =>
            (IncompleteStatus(result) /\ result.val = NoStatus)

C9_Witness ==
    /\ op = "status" /\ pc = "ready"
    /\ StreamEnded /\ Len(res) > 0 /\ Len(res) < 8
    /\ Cardinality(Calls("next")) >= 3
    /\ IncompleteStatus(result)

ConnectionEnsured(i) ==
    \/ log[1].ret = "true"
    \/ \E j \in 1..(i - 1) : j \in GoodConnects

\* C10 as stated: once the client is ready, a send or a status query makes
\* no connect call on the transport, whatever the state of the link, and a
\* send that returned Ok has written its frame exactly once.
C10_NoConnectAfterReady ==
    op \in {"send", "status"} =>
        /\ Calls("connect") = {}
        /\ (op = "send" /\ pc = "ready" /\ result.state = "ok") =>
            Cardinality(Calls("write")) = 1

\* C10 amended: a send or a status query first checks the connection; it
\* makes no connect call when the device reports connected and 1 to 3
\* attempts otherwise; it writes the 5-byte frame of its command at most
\* once and only after the connection is ensured; a finished send has written
\* exactly once when the connection was ensured and not at all otherwise, and
\* has subscribed to nothing and read no notification.
C10_EnsureThenWriteOnce ==
    (op \in {"send", "status"} /\ log # <<>>) =>
        /\ log[1].call = "is_connected"
        /\ log[1].ret = "true" => Calls("connect") = {}
        /\ (log[1].ret = "false" /\ pc # "connect") =>
            Cardinality(Calls("connect")) \in 1..3
        /\ Cardinality(Calls("connect")) <= 3
        /\ Cardinality(Calls("write")) <= 1
        /\ \A i \in Calls("write") :
            /\ log[i].data = buf(cmd)
            /\ Len(log[i].data) = 5
            /\ ConnectionEnsured(i)
        /\ (op = "send" /\ pc = "ready") =>
            /\ Cardinality(Calls("write")) = 1 <=> ConnectionEnsured(Len(log) + 1)
            /\ Calls("notify") = {} /\ Calls("next") = {}
            /\ Calls("write") # {} => log[Len(log)].call = "write"
            /\ result.state = "ok" <=> (\E i \in Calls("write") : log[i].ret = "ok")
        /\ (op = "status" /\ pc = "ready") =>
            Cardinality(Calls("write")) = 1 <=>
                (ConnectionEnsured(Len(log) + 1)
                 /\ \E i \in Calls("notify") : log[i].ret = "ok")

C10_Witness ==
    /\ op = "send" /\ pc = "ready" /\ result.state = "ok"
    /\ Cardinality(GoodConnects) = 1
    /\ Cardinality(FailedConnects) = 2
    /\ Cardinality(Calls("write")) = 1

\* C11: the frame of FixedRed is [COMMAND_PREFIX, 0, 0, 0, 0x36], as the
\* unit test static_cmd asserts: its opcode byte is 0x36.
C11_FixedRedFrame ==
    (encDone /\ encIn = Static("FixedRed")) =>
        encOut = <<COMMAND_PREFIX, 0, 0, 0, 54>>

====
